---- MODULE Spec2Model ----
(***************************************************************************)
(* A model of the reed-solomon-erasure crate root (src/lib.rs), its        *)
(* platform detection (src/platform.rs) and its GF(2^8) SIMD kernels       *)
(* (src/galois_8_avx2.rs, src/galois_8_avx512.rs, src/galois_8_neon.rs).   *)
(*                                                                         *)
(* Five specifications share the module's variables:                       *)
(*   SpecShard     the ReconstructShard implementations                    *)
(*   SpecField     Field::mul_slice and Field::mul_slice_add               *)
(*   SpecNth       Field::nth                                              *)
(*   SpecPlatform  Platform::detect                                        *)
(*   SpecKernel    gal_mul / gal_mul_xor of the three kernels              *)
(***************************************************************************)
EXTENDS Integers, Sequences, FiniteSets, TLC

VARIABLES
    shard,      \* the shard a ReconstructShard method is called on
    pre,        \* the shard as it was when the last call was made
    ret,        \* the last call and what it returned
    prev,       \* the call before the last one and what it returned
    elem,       \* Field::mul_slice / mul_slice_add: the multiplier
    input,      \* ... the input slice
    out,        \* ... the output slice
    fcall,      \* ... the last call: what it was given and how it ended
    nthCall,    \* Field::nth: the last call, its result and what it invoked
    build,      \* Platform::detect: the build configuration and the CPU
    platform,   \* ... the Platform it returned
    kcall,      \* gal_mul / gal_mul_xor: the kernel and the arguments of the call
    mem,        \* ... the memory behind low, high, in_0 and out
    kreg,       \* ... the locals of gal_mul_impl
    kpc,        \* ... where the call stands: "idle", "loop" or "returned"
    kret,       \* ... the value returned
    kacc        \* ... the memory accesses and the shuffle indices so far

shardVars == <<shard, pre, ret, prev>>

fieldVars == <<elem, input, out, fcall>>

nthVars == <<nthCall>>

platformVars == <<build, platform>>

kernelVars == <<kcall, mem, kreg, kpc, kret, kacc>>

vars ==
    <<shard, pre, ret, prev, elem, input, out, fcall, nthCall, build, platform,
      kcall, mem, kreg, kpc, kret, kacc>>

--------------------------------------------------------------------------
(* Bounds of the model.                                                    *)

\* Shard buffers hold at most MaxLen elements.
MaxLen == 2

\* Shard buffer elements are drawn from 0..MaxElem.
MaxElem == 1

\* The slices given to mul_slice and mul_slice_add hold at most MaxSlice
\* elements.
MaxSlice == 2

\* nth is called with indices up to ORDER + MaxOver.
MaxOver == 2

\* The kernels are given up to MaxBlocks whole vectors of input, plus a tail.
MaxBlocks == 2

--------------------------------------------------------------------------
(* Bytes.                                                                  *)

RECURSIVE Xor(_, _)
\* Bitwise exclusive or of two naturals.
Xor(a, b) ==
    IF a = 0 THEN b
    ELSE IF b = 0 THEN a
    ELSE (((a % 2) + (b % 2)) % 2) + 2 * Xor(a \div 2, b \div 2)

RECURSIVE And(_, _)
\* Bitwise and of two naturals.
And(a, b) ==
    IF a = 0 \/ b = 0 THEN 0
    ELSE ((a % 2) * (b % 2)) + 2 * And(a \div 2, b \div 2)

RECURSIVE Pow2(_)
Pow2(n) == IF n = 0 THEN 1 ELSE 2 * Pow2(n - 1)

Min(a, b) == IF a < b THEN a ELSE b

--------------------------------------------------------------------------
(* Field (src/lib.rs), instantiated with GF(2^8): bytes, addition is xor,  *)
(* multiplication is modulo the polynomial 0x11D.                          *)

\* Field::ORDER of GF(2^8).
ORDER == 256

\* The irreducible polynomial 0x11D of GF(2^8).
GF_POLYNOMIAL == 285

\* F::zero(), the additive identity.
Zero == 0

\* Field::add
Add(a, b) == Xor(a, b)

RECURSIVE MulLoop(_, _, _)
MulLoop(a, b, acc) ==
    IF b = 0 THEN acc
    ELSE MulLoop(IF 2 * a >= ORDER THEN Xor(2 * a, GF_POLYNOMIAL) ELSE 2 * a,
                 b \div 2,
                 IF b % 2 = 1 THEN Xor(acc, a) ELSE acc)

\* Field::mul
Mul(a, b) == MulLoop(a, b, 0)

\* Field::nth_internal of GF(2^8): the index as a byte.
NthInternal(n) == n % ORDER

\* Field::nth as an off-by-one guard would have it.
Nth_GuardOffByOne(n) ==
    IF n > ORDER
    THEN [panicked |-> TRUE, invoked |-> <<>>, val |-> 0]
    ELSE [panicked |-> FALSE, invoked |-> <<n>>, val |-> NthInternal(n)]

\* Field::nth: the panic, the arguments nth_internal was invoked with, and
\* the value returned.
Nth(n) ==
    IF n >= ORDER
    THEN [panicked |-> TRUE, invoked |-> <<>>, val |-> 0]
    ELSE [panicked |-> FALSE, invoked |-> <<n>>, val |-> NthInternal(n)]

\* for (i, o) in input.iter().zip(out) { *o = Self::mul(elem, *i); }
ZipMul(e, in, o) ==
    [j \in 1..Len(o) |->
        IF j <= Min(Len(in), Len(o)) THEN Mul(e, in[j]) ELSE o[j]]

\* for (i, o) in input.iter().zip(out) { *o = Self::add(*o, Self::mul(elem, *i)); }
ZipMulAdd(e, in, o) ==
    [j \in 1..Len(o) |->
        IF j <= Min(Len(in), Len(o)) THEN Add(o[j], Mul(e, in[j])) ELSE o[j]]

\* Field::mul_slice without its assert_eq.
MulSlice_NoAssert(e, in, o) == [panicked |-> FALSE, out |-> ZipMul(e, in, o)]

\* Field::mul_slice, the provided method.
MulSlice(e, in, o) ==
    IF Len(in) # Len(o)
    THEN [panicked |-> TRUE, out |-> o]
    ELSE [panicked |-> FALSE, out |-> ZipMul(e, in, o)]

\* Field::mul_slice_add, the provided method.
MulSliceAdd(e, in, o) ==
    IF Len(in) # Len(o)
    THEN [panicked |-> TRUE, out |-> o]
    ELSE [panicked |-> FALSE, out |-> ZipMulAdd(e, in, o)]

\* The field elements the slices and the multiplier are drawn from.
SampleElems == {0, 1, 2, 142, 255}

Slices == UNION {[1..n -> SampleElems] : n \in 0..MaxSlice}

FieldCall(op, e, in, o, panicked) ==
    [op |-> op, elem |-> e, input |-> in, out |-> o, panicked |-> panicked]

NoFieldCall == FieldCall("none", 0, <<>>, <<>>, FALSE)

NthCall(op, n, r) ==
    [op |-> op, arg |-> n, panicked |-> r.panicked, invoked |-> r.invoked,
     val |-> r.val]

NoNthCall ==
    NthCall("none", 0, [panicked |-> FALSE, invoked |-> <<>>, val |-> 0])

--------------------------------------------------------------------------
(* ReconstructShard (src/lib.rs).                                          *)
(* A shard is a record: form "option" holds Option<T> in opt, as a         *)
(* sequence of no buffer (None) or one buffer (Some(buf)); form "pair"     *)
(* holds (T, bool) in t and b.  The fields of the other form stay at       *)
(* their default.                                                          *)

Elems == 0..MaxElem

Lens == 0..MaxLen

Buffers == UNION {[1..n -> Elems] : n \in Lens}

OptionShard(o) == [form |-> "option", opt |-> o, t |-> <<>>, b |-> FALSE]

PairShard(buf, flag) == [form |-> "pair", opt |-> <<>>, t |-> buf, b |-> flag]

Shards ==
    {OptionShard(<<>>)} \cup {OptionShard(<<buf>>) : buf \in Buffers}
        \cup {PairShard(buf, flag) : buf \in Buffers, flag \in BOOLEAN}

\* What a call returns: Option<usize>, Option<&mut [Elem]>, bool, or the
\* crate's Result<&mut [Elem]> = Result<_, Result<_, Error>>.
Returned(op, arg, tag, n, buf, err) ==
    [op |-> op, arg |-> arg, tag |-> tag, n |-> n, buf |-> buf, err |-> err]

NoCall == Returned("none", 0, "none", 0, <<>>, "")

\* iter::repeat(F::zero()).take(len).collect()
RepeatZero(len) == [i \in 1..len |-> Zero]

\* <Option<T> as ReconstructShard>::len
OptionLen(s) ==
    IF s.opt # <<>> THEN [tag |-> "Some", n |-> Len(s.opt[1])]
                    ELSE [tag |-> "None", n |-> 0]

\* <Option<T> as ReconstructShard>::get
OptionGet(s) ==
    IF s.opt # <<>> THEN [tag |-> "Some", buf |-> s.opt[1]]
                    ELSE [tag |-> "None", buf |-> <<>>]

\* <Option<T> as ReconstructShard>::get_or_initialize: the shard after the
\* call (get_or_insert_with) and the result.
OptionGetOrInitialize(s, len) ==
    LET is_some == s.opt # <<>>
        after   == IF is_some THEN s ELSE [s EXCEPT !.opt = <<RepeatZero(len)>>]
        x       == after.opt[1]
    IN  [shard |-> after,
         tag   |-> IF is_some THEN "Ok" ELSE "ErrOk",
         buf   |-> x,
         err   |-> ""]

\* <(T, bool) as ReconstructShard>::len as it would be if it ignored the flag.
PairLen_IgnoresFlag(s) == [tag |-> "Some", n |-> Len(s.t)]

\* <(T, bool) as ReconstructShard>::len
PairLen(s) ==
    IF s.b THEN [tag |-> "Some", n |-> Len(s.t)]
           ELSE [tag |-> "None", n |-> 0]

\* <(T, bool) as ReconstructShard>::get
PairGet(s) ==
    IF s.b THEN [tag |-> "Some", buf |-> s.t]
           ELSE [tag |-> "None", buf |-> <<>>]

\* <(T, bool) as ReconstructShard>::get_or_initialize
PairGetOrInitialize(s, len) ==
    LET x == s.t
    IN  IF Len(x) = len
        THEN [shard |-> s,
              tag   |-> IF s.b THEN "Ok" ELSE "ErrOk",
              buf   |-> x,
              err   |-> ""]
        ELSE [shard |-> s, tag |-> "ErrErr", buf |-> <<>>,
              err |-> "IncorrectShardSize"]

\* Dispatch on the implementing type.
ShardLen(s) == IF s.form = "option" THEN OptionLen(s) ELSE PairLen(s)

ShardGet(s) == IF s.form = "option" THEN OptionGet(s) ELSE PairGet(s)

ShardGetOrInitialize(s, len) ==
    IF s.form = "option" THEN OptionGetOrInitialize(s, len)
                         ELSE PairGetOrInitialize(s, len)

\* ReconstructShard::is_empty, the provided method: self.len().is_none()
ShardIsEmpty(s) == ShardLen(s).tag = "None"

--------------------------------------------------------------------------
(* Platform (src/platform.rs).                                             *)
(* A build is the compilation target (arch, os, the target features        *)
(* enabled at compile time), the crate's cargo features and the features   *)
(* the CPU reports at run time.                                            *)

Archs == {"x86", "x86_64", "arm", "aarch64", "other"}

IsX86(b) == b.arch \in {"x86", "x86_64"}

IsArm(b) == b.arch \in {"arm", "aarch64"}

\* The CPU features an architecture can have, of those platform.rs asks for.
ArchFeatures(arch) ==
    IF arch \in {"x86", "x86_64"} THEN {"avx512f", "avx2", "sse3"}
    ELSE IF arch = "arm" THEN {"neon", "v7"}
    ELSE IF arch = "aarch64" THEN {"neon"}
    ELSE {}

\* The crate's cargo features that platform.rs and lib.rs read.
CargoFeatures == {"unstable", "no_avx512", "no_avx2", "no_sse3", "no_neon"}

\* The builds: a feature enabled at compile time is one the CPU has, and
\* NEON is always there on android aarch64 targets (platform.rs:94).
Builds ==
    {b \in [arch : Archs, android : BOOLEAN,
            features : SUBSET CargoFeatures,
            tf : SUBSET {"avx512f", "avx2", "sse3", "neon", "v7"},
            cpu : SUBSET {"avx512f", "avx2", "sse3", "neon", "v7"}] :
        /\ b.cpu \subseteq ArchFeatures(b.arch)
        /\ b.tf \subseteq b.cpu
        /\ (b.android /\ b.arch = "aarch64") => "neon" \in b.cpu}

\* cfg!(feature = "...")
CfgFeature(b, f) == f \in b.features

\* #[cfg(target_feature = "...")]
TargetFeature(b, f) == f \in b.tf

\* is_x86_feature_detected!, is_aarch64_feature_detected!,
\* is_arm_feature_detected!
FeatureDetected(b, f) == f \in b.cpu

\* avx512_detected
Avx512Detected(b) ==
    IF CfgFeature(b, "no_avx512") THEN FALSE
    ELSE IF TargetFeature(b, "avx512f") THEN TRUE
    ELSE FeatureDetected(b, "avx512f")

\* avx2_detected
Avx2Detected(b) ==
    IF CfgFeature(b, "no_avx2") THEN FALSE
    ELSE IF TargetFeature(b, "avx2") THEN TRUE
    ELSE FeatureDetected(b, "avx2")

\* sse3_detected
Sse3Detected(b) ==
    IF CfgFeature(b, "no_sse3") THEN FALSE
    ELSE IF TargetFeature(b, "sse3") THEN TRUE
    ELSE FeatureDetected(b, "sse3")

\* neon_detected
NeonDetected(b) ==
    IF CfgFeature(b, "no_neon") THEN FALSE
    ELSE IF b.arch = "aarch64"
    THEN (IF TargetFeature(b, "neon") \/ b.android THEN TRUE
          ELSE FeatureDetected(b, "neon"))
    ELSE IF b.arch = "arm" /\ CfgFeature(b, "unstable")
    THEN (IF TargetFeature(b, "neon") /\ TargetFeature(b, "v7") THEN TRUE
          ELSE FeatureDetected(b, "neon") /\ FeatureDetected(b, "v7"))
    ELSE FALSE

\* Platform::detect probing AVX2 before AVX512.
PlatformDetect_Avx2First(b) ==
    IF IsX86(b) /\ Avx2Detected(b) THEN "AVX2"
    ELSE IF IsX86(b) /\ Avx512Detected(b) THEN "AVX512"
    ELSE IF IsX86(b) /\ Sse3Detected(b) THEN "SSE3"
    ELSE IF IsArm(b) /\ NeonDetected(b) THEN "NEON"
    ELSE "Portable"

\* Platform::detect
PlatformDetect(b) ==
    IF IsX86(b) /\ Avx512Detected(b) THEN "AVX512"
    ELSE IF IsX86(b) /\ Avx2Detected(b) THEN "AVX2"
    ELSE IF IsX86(b) /\ Sse3Detected(b) THEN "SSE3"
    ELSE IF IsArm(b) /\ NeonDetected(b) THEN "NEON"
    ELSE "Portable"

\* The kernel modules of the crate root and their cfg gates (src/lib.rs).
ModuleCompiled(b, module) ==
    CASE module = "galois_8_avx2" -> IsX86(b)
      [] module = "galois_8_avx512" -> IsX86(b) /\ CfgFeature(b, "unstable")
      [] module = "galois_8_neon" ->
             \/ b.arch = "aarch64"
             \/ (b.arch = "arm" /\ CfgFeature(b, "unstable"))
      [] module = "galois_8_sse3" -> IsX86(b)
      [] OTHER -> FALSE

IdleBuild ==
    [arch |-> "other", android |-> FALSE, features |-> {}, tf |-> {},
     cpu |-> {}]

--------------------------------------------------------------------------
(* The GF(2^8) kernels (src/galois_8_avx2.rs, src/galois_8_avx512.rs,      *)
(* src/galois_8_neon.rs).  The three files share their structure; isa      *)
(* names the file and, for NEON, the target: "avx2", "avx512",             *)
(* "neon_aarch64", "neon_arm".  A vector is a sequence of bytes, byte 0    *)
(* of the register first.                                                  *)

Isas == {"avx2", "avx512", "neon_aarch64", "neon_arm"}

IsNeon(isa) == isa \in {"neon_aarch64", "neon_arm"}

\* size_of::<Vec>(): __m256i, __m512i, Vec128.
SizeOfVec(isa) ==
    CASE isa = "avx2" -> 32
      [] isa = "avx512" -> 64
      [] OTHER -> 16

\* loadu_v128: the 16 bytes at an offset of a buffer.
loadu_v128(buf, off) == [i \in 1..16 |-> buf[off + i]]

\* loadu_v: the size_of::<Vec>() bytes at an offset of a buffer.
loadu_v(isa, buf, off) == [i \in 1..SizeOfVec(isa) |-> buf[off + i]]

\* set1_epi8_v
set1_epi8_v(isa, c) == [i \in 1..SizeOfVec(isa) |-> c]

\* _mm256_srli_epi64 / _mm512_srli_epi64: each little-endian 64-bit lane
\* shifted right by N bits, zeros shifted in at the top of the lane.
mm_srli_epi64(v, N) ==
    [i \in 1..Len(v) |->
        (v[i] \div Pow2(N))
            + (IF (i - 1) % 8 < 7
               THEN (v[i + 1] % Pow2(N)) * Pow2(8 - N)
               ELSE 0)]

\* vshrq_n_u8: each byte shifted right by N bits.
vshrq_n_u8(v, N) == [i \in 1..Len(v) |-> v[i] \div Pow2(N)]

\* srli_epi64_v::<N>
srli_epi64_v(isa, in_0, N) ==
    IF IsNeon(isa) THEN vshrq_n_u8(in_0, N) ELSE mm_srli_epi64(in_0, N)

\* and_v
and_v(a, b) == [i \in 1..Len(a) |-> And(a[i], b[i])]

\* xor_v
xor_v(a, b) == [i \in 1..Len(a) |-> Xor(a[i], b[i])]

\* _mm256_shuffle_epi8 / _mm512_shuffle_epi8: within each 128-bit lane, a
\* mask byte with its top bit set gives 0, another one selects the byte of
\* the lane its low four bits name.
mm_shuffle_epi8(vec, mask) ==
    [i \in 1..Len(vec) |->
        IF mask[i] >= 128 THEN 0
        ELSE vec[16 * ((i - 1) \div 16) + (mask[i] % 16) + 1]]

\* vqtbl1q_u8: a table lookup, 0 for an index out of 0..15.
vqtbl1q_u8(vec, mask) ==
    [i \in 1..Len(vec) |-> IF mask[i] < 16 THEN vec[mask[i] + 1] ELSE 0]

\* The element-wise shuffle of 32-bit ARM (do_byte).
do_byte_shuffle(vec, mask) ==
    [i \in 1..Len(vec) |->
        IF And(mask[i], 128) = 0 THEN vec[And(mask[i], 15) + 1] ELSE 0]

\* shuffle_epi8_v
shuffle_epi8_v(isa, vec, mask) ==
    CASE isa = "neon_aarch64" -> vqtbl1q_u8(vec, mask)
      [] isa = "neon_arm" -> do_byte_shuffle(vec, mask)
      [] OTHER -> mm_shuffle_epi8(vec, mask)

\* storeu_v: a buffer with the vector stored at an offset.
storeu_v(buf, off, vec) ==
    [j \in 1..Len(buf) |->
        IF j > off /\ j <= off + Len(vec) THEN vec[j - off] ELSE buf[j]]

\* replicate_v128_v: _mm256_broadcastsi128_si256 / _mm512_broadcast_i32x4
\* copy the 128 bits into every 128-bit lane; NEON's vector is 128 bits.
replicate_v128_v(isa, vec) ==
    [i \in 1..SizeOfVec(isa) |-> vec[((i - 1) % 16) + 1]]

\* noop
noop(new, old) == new

\* modifier.expect("non-null function pointer")(new, old)
ApplyModifier(modifier, new, old) ==
    IF modifier = "xor_v" THEN xor_v(new, old) ELSE noop(new, old)

\* gal_mul_v indexing the high table with the shifted input, unmasked.
gal_mul_v_Unmasked(isa, low_mask_unpacked, low_vector, high_vector, modifier, in_x, old) ==
    LET low_input     == and_v(in_x, low_mask_unpacked)
        in_x_shifted  == srli_epi64_v(isa, in_x, 4)
        mul_low_part  == shuffle_epi8_v(isa, low_vector, low_input)
        mul_high_part == shuffle_epi8_v(isa, high_vector, in_x_shifted)
        new           == xor_v(mul_low_part, mul_high_part)
    IN  ApplyModifier(modifier, new, old)

\* gal_mul_v
gal_mul_v(isa, low_mask_unpacked, low_vector, high_vector, modifier, in_x, old) ==
    LET low_input     == and_v(in_x, low_mask_unpacked)
        in_x_shifted  == srli_epi64_v(isa, in_x, 4)
        high_input    == and_v(in_x_shifted, low_mask_unpacked)
        mul_low_part  == shuffle_epi8_v(isa, low_vector, low_input)
        mul_high_part == shuffle_epi8_v(isa, high_vector, high_input)
        new           == xor_v(mul_low_part, mul_high_part)
    IN  ApplyModifier(modifier, new, old)

\* The two masks gal_mul_v hands to shuffle_epi8_v: low_input, high_input.
gal_mul_v_masks(isa, low_mask_unpacked, in_x) ==
    LET low_input    == and_v(in_x, low_mask_unpacked)
        in_x_shifted == srli_epi64_v(isa, in_x, 4)
        high_input   == and_v(in_x_shifted, low_mask_unpacked)
    IN  <<low_input, high_input>>

\* The bytes of a shuffle mask: the indices it passes to the byte shuffle.
MaskBytes(mask) == {mask[i] : i \in 1..Len(mask)}

\* Whether a shuffle with this mask takes the zeroing branch for some byte:
\* (mask.u8_0[i] & 0x80) != 0.
ZeroingTaken(mask) == \E i \in 1..Len(mask) : And(mask[i], 128) # 0

\* A memory access of n bytes at an offset of the buffer behind a pointer.
Access(op, buf, off, n) == [op |-> op, buf |-> buf, off |-> off, n |-> n]

\* The accesses made, the shuffle indices passed and whether a shuffle
\* took its zeroing branch.
AccessLog(accesses, indices, zeroing) ==
    [accesses |-> accesses, indices |-> indices, zeroing |-> zeroing]

NoAccesses == AccessLog({}, {}, FALSE)

\* The loop condition of gal_mul_impl rounding len / s_v up.
LoopCondition_RoundsUp(x, len, s_v) == x * s_v < len

\* done = done.wrapping_add(s_v) with the stride of the 128-bit kernels.
NextDone_Stride16(done, s_v) == done + 16

\* done = done.wrapping_add(s_v)
NextDone(done, s_v) == done + s_v

\* The loop condition of gal_mul_impl: x < len.wrapping_div(s_v)
LoopCondition(x, len, s_v) == x < len \div s_v

\* Bytes j |-> (a * j + b) mod 256, for buffers and tables of the model.
PatternBytes(a, b, n) == [j \in 1..n |-> (a * j + b) % 256]

\* The low and high nibble tables of the multiplier e.
MulTableLow(e) == [i \in 1..16 |-> Mul(e, i - 1)]

MulTableHigh(e) == [i \in 1..16 |-> Mul(e, 16 * (i - 1))]

\* The table pairs the kernels are called with: those of two multipliers,
\* and a pair that is no multiplication table.
TablePairs ==
    {[low |-> MulTableLow(e), high |-> MulTableHigh(e)] : e \in {2, 142}}
        \cup {[low |-> PatternBytes(37, 11, 16),
               high |-> PatternBytes(101, 7, 16)]}

\* The lengths a kernel of vector size W is called with.
KernelLens(W) ==
    {k * W + t : k \in 0..MaxBlocks, t \in {0, 1, 5, W - 1}}

\* The input and output buffers of len bytes.
InputBuffers(len) == {PatternBytes(73, 200, len), PatternBytes(1, 119, len)}

OutputBuffers(len) == {PatternBytes(0, 0, len), PatternBytes(29, 3, len)}

\* The arguments of a call: the kernel, and what low, high, in_0 and out
\* point to when it is made.
KernelCalls ==
    UNION {
        {[isa |-> isa, modifier |-> "none", len |-> len,
          low |-> t.low, high |-> t.high, in_0 |-> i, out |-> o] :
            t \in TablePairs, i \in InputBuffers(len), o \in OutputBuffers(len)}
        : <<isa, len>> \in
            UNION {{<<a, l>> : l \in KernelLens(SizeOfVec(a))} : a \in Isas}}

Memory(low, high, in_0, o) ==
    [low |-> low, high |-> high, in_0 |-> in_0, out |-> o]

Locals(low_mask_unpacked, low_vector, high_vector, done, x) ==
    [low_mask_unpacked |-> low_mask_unpacked, low_vector |-> low_vector,
     high_vector |-> high_vector, done |-> done, x |-> x]

NoLocals == Locals(<<>>, <<>>, <<>>, 0, 0)

IdleKernelCall ==
    [isa |-> "neon_arm", modifier |-> "none", len |-> 0,
     low |-> <<>>, high |-> <<>>, in_0 |-> <<>>, out |-> <<>>]

--------------------------------------------------------------------------
(* Each specification runs one component and holds the others idle.        *)

ShardIdle ==
    /\ shard = OptionShard(<<>>)
    /\ pre = OptionShard(<<>>)
    /\ ret = NoCall
    /\ prev = NoCall

FieldIdle ==
    /\ elem = 0
    /\ input = <<>>
    /\ out = <<>>
    /\ fcall = NoFieldCall

NthIdle == nthCall = NoNthCall

PlatformIdle ==
    /\ build = IdleBuild
    /\ platform = "undetected"

KernelIdle ==
    /\ kcall = IdleKernelCall
    /\ mem = Memory(<<>>, <<>>, <<>>, <<>>)
    /\ kreg = NoLocals
    /\ kpc = "idle"
    /\ kret = 0
    /\ kacc = NoAccesses

notShardVars == <<fieldVars, nthVars, platformVars, kernelVars>>

notFieldVars == <<shardVars, nthVars, platformVars, kernelVars>>

notNthVars == <<shardVars, fieldVars, platformVars, kernelVars>>

notPlatformVars == <<shardVars, fieldVars, nthVars, kernelVars>>

notKernelVars == <<shardVars, fieldVars, nthVars, platformVars>>

--------------------------------------------------------------------------
(* SpecShard: any sequence of calls on a shard of either form.             *)

ShardInit ==
    /\ shard \in Shards
    /\ pre = shard
    /\ ret = NoCall
    /\ prev = NoCall
    /\ FieldIdle
    /\ NthIdle
    /\ PlatformIdle
    /\ KernelIdle

CallLen ==
    /\ ret' = Returned("len", 0, ShardLen(shard).tag, ShardLen(shard).n, <<>>, "")
    /\ prev' = ret
    /\ pre' = shard
    /\ UNCHANGED shard
    /\ UNCHANGED notShardVars

CallGet ==
    /\ ret' = Returned("get", 0, ShardGet(shard).tag, 0, ShardGet(shard).buf, "")
    /\ prev' = ret
    /\ pre' = shard
    /\ UNCHANGED shard
    /\ UNCHANGED notShardVars

CallIsEmpty ==
    /\ ret' = Returned("is_empty", 0,
                       IF ShardIsEmpty(shard) THEN "true" ELSE "false",
                       0, <<>>, "")
    /\ prev' = ret
    /\ pre' = shard
    /\ UNCHANGED shard
    /\ UNCHANGED notShardVars

CallGetOrInitialize ==
    \E len \in Lens :
        LET r == ShardGetOrInitialize(shard, len)
        IN  /\ shard' = r.shard
            /\ ret' = Returned("get_or_initialize", len, r.tag, 0, r.buf, r.err)
            /\ prev' = ret
            /\ pre' = shard
            /\ UNCHANGED notShardVars

ShardNext ==
    \/ CallLen
    \/ CallGet
    \/ CallIsEmpty
    \/ CallGetOrInitialize

SpecShard == ShardInit /\ [][ShardNext]_vars

--------------------------------------------------------------------------
(* SpecField: one call of mul_slice or mul_slice_add on slices drawn from  *)
(* Slices, of equal or different lengths.                                  *)

FieldInit ==
    /\ elem \in SampleElems
    /\ input \in Slices
    /\ out \in Slices
    /\ fcall = NoFieldCall
    /\ ShardIdle
    /\ NthIdle
    /\ PlatformIdle
    /\ KernelIdle

CallMulSlice ==
    /\ fcall.op = "none"
    /\ out' = MulSlice(elem, input, out).out
    /\ fcall' = FieldCall("mul_slice", elem, input, out,
                          MulSlice(elem, input, out).panicked)
    /\ UNCHANGED <<elem, input>>
    /\ UNCHANGED notFieldVars

CallMulSliceAdd ==
    /\ fcall.op = "none"
    /\ out' = MulSliceAdd(elem, input, out).out
    /\ fcall' = FieldCall("mul_slice_add", elem, input, out,
                          MulSliceAdd(elem, input, out).panicked)
    /\ UNCHANGED <<elem, input>>
    /\ UNCHANGED notFieldVars

FieldNext ==
    \/ CallMulSlice
    \/ CallMulSliceAdd

SpecField == FieldInit /\ [][FieldNext]_vars

--------------------------------------------------------------------------
(* SpecNth: calls of nth with indices below, at and above ORDER.           *)

NthInit ==
    /\ nthCall = NoNthCall
    /\ ShardIdle
    /\ FieldIdle
    /\ PlatformIdle
    /\ KernelIdle

CallNth ==
    \E n \in 0..(ORDER + MaxOver) :
        /\ nthCall' = NthCall("nth", n, Nth(n))
        /\ UNCHANGED notNthVars

NthNext == CallNth

SpecNth == NthInit /\ [][NthNext]_vars

--------------------------------------------------------------------------
(* SpecPlatform: Platform::detect on every build.                          *)

PlatformInit ==
    /\ build \in Builds
    /\ platform = "undetected"
    /\ ShardIdle
    /\ FieldIdle
    /\ NthIdle
    /\ KernelIdle

CallDetect ==
    /\ platform' = PlatformDetect(build)
    /\ UNCHANGED build
    /\ UNCHANGED notPlatformVars

PlatformNext == CallDetect

SpecPlatform == PlatformInit /\ [][PlatformNext]_vars

--------------------------------------------------------------------------
(* SpecKernel: one call of gal_mul or gal_mul_xor of one kernel, run       *)
(* iteration by iteration.                                                 *)

KernelInit ==
    /\ kcall \in KernelCalls
    /\ mem = Memory(kcall.low, kcall.high, kcall.in_0, kcall.out)
    /\ kreg = NoLocals
    /\ kpc = "idle"
    /\ kret = 0
    /\ kacc = NoAccesses
    /\ ShardIdle
    /\ FieldIdle
    /\ NthIdle
    /\ PlatformIdle

\* gal_mul_impl up to its loop: the mask, the two tables, done and x.
Enter(modifier) ==
    /\ kpc = "idle"
    /\ kcall' = [kcall EXCEPT !.modifier = modifier]
    /\ kreg' = Locals(set1_epi8_v(kcall.isa, 15),
                      replicate_v128_v(kcall.isa, loadu_v128(mem.low, 0)),
                      replicate_v128_v(kcall.isa, loadu_v128(mem.high, 0)),
                      0, 0)
    /\ kpc' = "loop"
    /\ kacc' = [kacc EXCEPT !.accesses =
                    @ \cup {Access("load", "low", 0, 16),
                            Access("load", "high", 0, 16)}]
    /\ UNCHANGED <<mem, kret>>
    /\ UNCHANGED notKernelVars

\* gal_mul
CallGalMul == Enter("noop")

\* gal_mul_xor
CallGalMulXor == Enter("xor_v")

\* One iteration of the loop of gal_mul_impl.
LoopIteration ==
    /\ kpc = "loop"
    /\ LoopCondition(kreg.x, kcall.len, SizeOfVec(kcall.isa))
    /\ LET in_x   == loadu_v(kcall.isa, mem.in_0, kreg.done)
           old    == loadu_v(kcall.isa, mem.out, kreg.done)
           result == gal_mul_v(kcall.isa, kreg.low_mask_unpacked,
                               kreg.low_vector, kreg.high_vector,
                               kcall.modifier, in_x, old)
       IN  /\ mem' = [mem EXCEPT !.out = storeu_v(mem.out, kreg.done, result)]
           /\ kreg' = [kreg EXCEPT
                          !.done = NextDone(kreg.done, SizeOfVec(kcall.isa)),
                          !.x = kreg.x + 1]
    /\ LET masks == gal_mul_v_masks(kcall.isa, kreg.low_mask_unpacked,
                                    loadu_v(kcall.isa, mem.in_0, kreg.done))
           s_v   == SizeOfVec(kcall.isa)
       IN  kacc' = AccessLog(
               kacc.accesses \cup {Access("load", "in_0", kreg.done, s_v),
                                   Access("load", "out", kreg.done, s_v),
                                   Access("store", "out", kreg.done, s_v)},
               kacc.indices \cup MaskBytes(masks[1]) \cup MaskBytes(masks[2]),
               kacc.zeroing \/ ZeroingTaken(masks[1]) \/ ZeroingTaken(masks[2]))
    /\ UNCHANGED <<kcall, kpc, kret>>
    /\ UNCHANGED notKernelVars

\* The loop of gal_mul_impl is left and done is returned.
Return ==
    /\ kpc = "loop"
    /\ ~LoopCondition(kreg.x, kcall.len, SizeOfVec(kcall.isa))
    /\ kret' = kreg.done
    /\ kpc' = "returned"
    /\ UNCHANGED <<kcall, mem, kreg, kacc>>
    /\ UNCHANGED notKernelVars

KernelNext ==
    \/ CallGalMul
    \/ CallGalMulXor
    \/ LoopIteration
    \/ Return

SpecKernel == KernelInit /\ [][KernelNext]_vars

--------------------------------------------------------------------------
(* Properties of ReconstructShard, checked under SpecShard.                *)

\* Whether a shard holds no valid data: None, or a pair whose flag is false.
Absent(s) == IF s.form = "option" THEN s.opt = <<>> ELSE ~s.b

\* The buffer a shard holds (for a pair also when it is absent).
BufferOf(s) ==
    IF s.form = "option"
    THEN (IF s.opt = <<>> THEN <<>> ELSE s.opt[1])
    ELSE s.t

AllZero(buf) == \A i \in 1..Len(buf) : buf[i] = Zero

\* C1: get_or_initialize(len) on a shard that holds a present buffer whose
\* length differs from len is rejected with IncorrectShardSize and leaves
\* the shard unchanged, for both forms.
C1_WrongLengthRejected ==
    (/\ ret.op = "get_or_initialize"
     /\ ~Absent(pre)
     /\ Len(BufferOf(pre)) # ret.arg)
        => (/\ ret.tag = "ErrErr"
            /\ ret.err = "IncorrectShardSize"
            /\ shard = pre)

\* C2: get_or_initialize(len) returns Ok(buf) with the contents untouched on
\* a present shard of length len, and Err(Ok(buf)) with buf of exactly len
\* elements, all F::zero(), on an absent shard, whatever it held before.
C2_FreshIsZeroFilled ==
    ret.op = "get_or_initialize" =>
        /\ (~Absent(pre) /\ Len(BufferOf(pre)) = ret.arg)
               => (ret.tag = "Ok" /\ ret.buf = BufferOf(pre) /\ shard = pre)
        /\ Absent(pre)
               => (/\ ret.tag = "ErrOk"
                   /\ Len(ret.buf) = ret.arg
                   /\ AllZero(ret.buf))

\* C3: in every reachable state len() is None exactly when the shard is
\* absent, get() is None exactly when the shard is absent, and on a present
\* shard len() is the length of the slice get() returns.
C3_LenGetAgree ==
    /\ (ShardLen(shard).tag = "None") <=> Absent(shard)
    /\ (ShardGet(shard).tag = "None") <=> Absent(shard)
    /\ ~Absent(shard) =>
           /\ ShardLen(shard).tag = "Some"
           /\ ShardGet(shard).tag = "Some"
           /\ ShardLen(shard).n = Len(ShardGet(shard).buf)
    /\ ret.op = "len" => ret.tag = ShardLen(pre).tag
    /\ (ret.op = "len" /\ prev.op = "get") =>
           /\ (ret.tag = "None") <=> (prev.tag = "None")
           /\ ret.tag = "Some" => ret.n = Len(prev.buf)

\* C3 witness: get_or_initialize(MaxLen) has just made an absent shard
\* present, and an absent pair has answered len() after get().
C3_Witness_FreshlyPresent ==
    /\ ret.op = "get_or_initialize"
    /\ ret.tag = "ErrOk"
    /\ Absent(pre)
    /\ ~Absent(shard)
    /\ ShardLen(shard).n = MaxLen

\* C8: is_empty() is true for a present shard whose buffer has length 0.
C8_EmptyWhenZeroLength ==
    (/\ ret.op = "is_empty"
     /\ ShardLen(pre).tag = "Some"
     /\ ShardLen(pre).n = 0)
        => ret.tag = "true"

\* C10: once get_or_initialize(len) has returned a buffer, the next len()
\* returns Some(len), the next get() returns Some(buffer), and a second
\* get_or_initialize(len) reports the buffer as pre-existing (Ok).
C10_PresentAfterInitialize ==
    (prev.op = "get_or_initialize" /\ prev.tag \in {"Ok", "ErrOk"}) =>
        /\ ret.op = "len" => (ret.tag = "Some" /\ ret.n = prev.arg)
        /\ ret.op = "get" => (ret.tag = "Some" /\ ret.buf = prev.buf)
        /\ (ret.op = "get_or_initialize" /\ ret.arg = prev.arg)
               => ret.tag = "Ok"

--------------------------------------------------------------------------
(* Properties of Platform::detect, checked under SpecPlatform.             *)

\* A feature is available when the compile target or the CPU has it.
Available(b, f) == TargetFeature(b, f) \/ FeatureDetected(b, f)

\* The x86 choice in descending capability order, skipping suppressed
\* feature classes.
BestOfX86(b) ==
    IF Available(b, "avx512f") /\ ~CfgFeature(b, "no_avx512") THEN "AVX512"
    ELSE IF Available(b, "avx2") /\ ~CfgFeature(b, "no_avx2") THEN "AVX2"
    ELSE IF Available(b, "sse3") /\ ~CfgFeature(b, "no_sse3") THEN "SSE3"
    ELSE "Portable"

NeverSuppressed ==
    /\ CfgFeature(build, "no_avx512") => platform # "AVX512"
    /\ CfgFeature(build, "no_avx2") => platform # "AVX2"
    /\ CfgFeature(build, "no_sse3") => platform # "SSE3"
    /\ CfgFeature(build, "no_neon") => platform # "NEON"

\* C5 as stated: detect returns the best available, unsuppressed x86 kernel
\* on x86/x86_64, NEON on ARM (arm, aarch64) if NEON is available and not
\* suppressed, never a suppressed class, and Portable if none applies.
C5_DetectDescendingOrder ==
    platform # "undetected" =>
        /\ IsX86(build) => platform = BestOfX86(build)
        /\ IsArm(build) =>
               platform = IF Available(build, "neon")
                              /\ ~CfgFeature(build, "no_neon")
                          THEN "NEON" ELSE "Portable"
        /\ (~IsX86(build) /\ ~IsArm(build)) => platform = "Portable"
        /\ NeverSuppressed

\* C5 amended: as C5, but on 32-bit arm NEON is returned only when the crate
\* is built with the "unstable" feature and v7 is available as well as
\* NEON; on aarch64 as stated.
C5_DetectDescendingOrderAmended ==
    platform # "undetected" =>
        /\ IsX86(build) => platform = BestOfX86(build)
        /\ build.arch = "aarch64" =>
               platform = IF Available(build, "neon")
                              /\ ~CfgFeature(build, "no_neon")
                          THEN "NEON" ELSE "Portable"
        /\ build.arch = "arm" =>
               platform = IF /\ CfgFeature(build, "unstable")
                             /\ Available(build, "neon")
                             /\ Available(build, "v7")
                             /\ ~CfgFeature(build, "no_neon")
                          THEN "NEON" ELSE "Portable"
        /\ (~IsX86(build) /\ ~IsArm(build)) => platform = "Portable"
        /\ NeverSuppressed

\* C5 witness: on 32-bit arm, built with "unstable", detect has found NEON
\* and v7 at run time and returned NEON.
C5_Witness_ArmNeonAtRuntime ==
    /\ platform = "NEON"
    /\ build.arch = "arm"
    /\ CfgFeature(build, "unstable")
    /\ ~TargetFeature(build, "neon")

\* The kernel module that implements a SIMD platform.
KernelModuleOf(p) ==
    CASE p = "AVX512" -> "galois_8_avx512"
      [] p = "AVX2" -> "galois_8_avx2"
      [] p = "SSE3" -> "galois_8_sse3"
      [] p = "NEON" -> "galois_8_neon"
      [] OTHER -> "none"

\* C11: on every build, when detect returns a SIMD platform the matching
\* kernel module is compiled into the crate: AVX512 implies galois_8_avx512,
\* AVX2 galois_8_avx2, SSE3 galois_8_sse3, NEON galois_8_neon.
C11_DetectedKernelIsCompiled ==
    platform \in {"AVX512", "AVX2", "SSE3", "NEON"} =>
        ModuleCompiled(build, KernelModuleOf(platform))

--------------------------------------------------------------------------
(* Properties of the kernels, checked under SpecKernel.                    *)

\* The scalar nibble-table reference for one byte.
NibbleProduct(low, high, byte) ==
    Xor(low[(byte % 16) + 1], high[(byte \div 16) + 1])

\* What the call is to leave in out[j] (j counted from 1).
ReferenceByte(j) ==
    LET product == NibbleProduct(kcall.low, kcall.high, kcall.in_0[j])
    IN  IF kcall.modifier = "xor_v" THEN Xor(kcall.out[j], product) ELSE product

\* C4: for each kernel, every table pair, every input and every index j
\* below the processed count, gal_mul has written
\* low[in[j] AND 0x0F] XOR high[in[j] >> 4] to out[j], and gal_mul_xor that
\* value XOR the old out[j]: whatever out held and whatever the bytes next
\* to in[j] in its 64-bit lane are.
C4_KernelMatchesNibbleReference ==
    /\ kpc = "loop" =>
           \A j \in 1..kreg.done : mem.out[j] = ReferenceByte(j)
    /\ kpc = "returned" =>
           \A j \in 1..kret : mem.out[j] = ReferenceByte(j)

\* C4 witness: gal_mul_xor of the AVX2 kernel has returned after MaxBlocks
\* vectors, on an input whose second byte has bit 3 set (the 64-bit shift
\* carries it into the top bit of the first byte), and has changed out.
C4_Witness_Avx2XorProcessed ==
    /\ kpc = "returned"
    /\ kcall.isa = "avx2"
    /\ kcall.modifier = "xor_v"
    /\ kret = MaxBlocks * 32
    /\ kcall.in_0[2] % 16 >= 8
    /\ mem.out[1] # kcall.out[1]

\* C9: gal_mul and gal_mul_xor return W * floor(len / W); the bytes of out
\* at and above the returned count are unchanged; the input and the two
\* tables are never written; for len < W the kernel returns 0 and changes
\* nothing.
C9_ReturnsWholeVectorsOnly ==
    /\ mem.low = kcall.low
    /\ mem.high = kcall.high
    /\ mem.in_0 = kcall.in_0
    /\ Len(mem.out) = Len(kcall.out)
    /\ kpc = "returned" =>
           /\ kret = SizeOfVec(kcall.isa) * (kcall.len \div SizeOfVec(kcall.isa))
           /\ \A j \in (kret + 1)..kcall.len : mem.out[j] = kcall.out[j]
           /\ kcall.len < SizeOfVec(kcall.isa) =>
                  (kret = 0 /\ mem.out = kcall.out)

\* C9 witness: the AVX512 kernel has returned 64 of 64 + 63 bytes.
C9_Witness_Avx512Tail ==
    /\ kpc = "returned"
    /\ kcall.isa = "avx512"
    /\ kcall.len = 127
    /\ kret = 64
    /\ mem.out # kcall.out

\* The bytes behind a pointer of the call: len bytes of in_0 and of out,
\* 16 bytes of each table.
BytesBehind(buf) == IF buf \in {"low", "high"} THEN 16 ELSE kcall.len

\* C12: the loop of gal_mul_impl ends after exactly floor(len / W)
\* iterations; every load from in_0 and every load and store on out covers
\* offsets [done, done + W) with done + W <= len, so no byte at an offset
\* >= len is read or written; the table loads read exactly the 16 bytes of
\* low and of high; every index passed to the byte shuffle is in 0..15, so
\* the emulated shuffle of 32-bit ARM never takes its zeroing branch.
C12_LoopStaysInBounds ==
    LET W == SizeOfVec(kcall.isa)
    IN  /\ kreg.x <= kcall.len \div W
        /\ kpc = "returned" => kreg.x = kcall.len \div W
        /\ (kpc = "loop" /\ LoopCondition(kreg.x, kcall.len, W)) =>
               (kreg.done = kreg.x * W /\ kreg.done + W <= kcall.len)
        /\ \A a \in kacc.accesses :
               /\ a.off + a.n <= BytesBehind(a.buf)
               /\ a.op = "store" => a.buf = "out"
               /\ a.buf \in {"low", "high"} => (a.off = 0 /\ a.n = 16)
               /\ a.buf \in {"in_0", "out"} =>
                      /\ a.n = W
                      /\ \E k \in 0..(kreg.x - 1) : a.off = k * W
        /\ kpc # "idle" =>
               {a \in kacc.accesses : a.buf \in {"low", "high"}}
                   = {Access("load", "low", 0, 16),
                      Access("load", "high", 0, 16)}
        /\ \A k \in 0..(kreg.x - 1) :
               {a \in kacc.accesses : a.off = k * W /\ a.buf \in {"in_0", "out"}}
                   = {Access("load", "in_0", k * W, W),
                      Access("load", "out", k * W, W),
                      Access("store", "out", k * W, W)}
        /\ kacc.indices \subseteq 0..15
        /\ ~kacc.zeroing

\* C12 witness: the 32-bit ARM NEON kernel has returned after MaxBlocks
\* iterations on MaxBlocks * 16 + 15 bytes, its last store at the last
\* whole vector, having passed index 15 to the shuffle.
C12_Witness_ArmLastVector ==
    /\ kpc = "returned"
    /\ kcall.isa = "neon_arm"
    /\ kcall.len = MaxBlocks * 16 + 15
    /\ kreg.x = MaxBlocks
    /\ Access("store", "out", (MaxBlocks - 1) * 16, 16) \in kacc.accesses
    /\ 15 \in kacc.indices

--------------------------------------------------------------------------
(* Properties of the Field trait's provided methods.                       *)

\* C6: mul_slice writes out[j] = mul(e, in[j]) and mul_slice_add writes
\* out[j] = add(old out[j], mul(e, in[j])) for every j, leaving in
\* unchanged; with slices of different lengths both panic before any
\* element of out is written.  (SpecField)
C6_MulSliceElementwise ==
    fcall.op # "none" =>
        /\ input = fcall.input
        /\ elem = fcall.elem
        /\ Len(fcall.input) # Len(fcall.out) =>
               (fcall.panicked /\ out = fcall.out)
        /\ Len(fcall.input) = Len(fcall.out) =>
               /\ ~fcall.panicked
               /\ Len(out) = Len(fcall.out)
               /\ \A j \in 1..Len(out) :
                      /\ fcall.op = "mul_slice" =>
                             out[j] = Mul(fcall.elem, fcall.input[j])
                      /\ fcall.op = "mul_slice_add" =>
                             out[j] = Add(fcall.out[j],
                                          Mul(fcall.elem, fcall.input[j]))

\* C6 witness: mul_slice_add by 2 of an input starting with 142 onto an
\* output starting with 1 has written add(1, mul(2, 142)) = 0 there.
C6_Witness_MulSliceAddWrote ==
    /\ fcall.op = "mul_slice_add"
    /\ ~fcall.panicked
    /\ fcall.elem = 2
    /\ Len(out) = MaxSlice
    /\ fcall.input[1] = 142
    /\ fcall.out[1] = 1
    /\ out[1] = 0

\* C7: nth(n) panics for every n >= ORDER without calling nth_internal,
\* and for every n < ORDER returns exactly nth_internal(n); nth_internal
\* is never invoked with an index out of range.  (SpecNth)
C7_NthGuardsOrder ==
    nthCall.op = "nth" =>
        /\ nthCall.arg >= ORDER =>
               (nthCall.panicked /\ nthCall.invoked = <<>>)
        /\ nthCall.arg < ORDER =>
               /\ ~nthCall.panicked
               /\ nthCall.invoked = <<nthCall.arg>>
               /\ nthCall.val = NthInternal(nthCall.arg)
        /\ \A i \in 1..Len(nthCall.invoked) : nthCall.invoked[i] < ORDER

\* C7 witness: nth(ORDER) has panicked.
C7_Witness_PanicAtOrder ==
    /\ nthCall.op = "nth"
    /\ nthCall.arg = ORDER
    /\ nthCall.panicked

====
